---- MODULE Spec2Model ----
(***************************************************************************)
(* Model of the processing coordinator of the screenshot overlay           *)
(* (electron/ProcessingHelper.ts), of the IPC handlers that drive it and   *)
(* of the settings handlers (electron/ipcHandlers.ts).                     *)
(*                                                                         *)
(* Node runs one callback at a time: an async function runs without        *)
(* interruption from one await to the next.  Every action below is one     *)
(* such uninterrupted stretch of code; an await on I/O (a file read, the   *)
(* renderer's executeJavaScript, a remote request) ends a stretch, and the *)
(* completion of the I/O starts the next one.                              *)
(***************************************************************************)
EXTENDS Integers, Sequences, FiniteSets, TLC

\* ------------------------------------------------------------------ bounds
\* Remote requests of one invocation of processScreenshots that its history
\* keeps (the latest ones).
MaxCalls == 3
\* Screenshots a queue may hold.
MaxQueue == 1
\* Pieces (a fence, a backquote, a newline, an ordinary character) a model
\* reply is made of.
MaxTokens == 6

\* The invocations of processScreenshots that may be in progress together.
Runs == {"A", "B"}

\* ------------------------------------------------------- values of the code
Views == {"queue", "solutions", "debug"}
NoCtl == "null"          \* an AbortController field holding null
NoInfo == "null"         \* problemInfo null
\* The problem info an earlier invocation stored before the view left 'queue'.
EarlierInfo == "earlier"
\* A string is the sequence of its characters.  An absent string (an argument
\* not passed, an environment variable or a settings key that is not set) is
\* the empty sequence: the code tells neither from "" (`x || y`, `!x`).
NoKey == <<>>
DefaultModel == <<"g", "p", "t", "-", "4", "o">>

VARIABLES
  mainWindow,   \* WindowHelper.mainWindow is not null
  view,         \* deps.getView()
  queueLen,     \* length of screenshotHelper.getScreenshotQueue()
  extraLen,     \* length of screenshotHelper.getExtraScreenshotQueue()
  problemInfo,  \* deps.getProblemInfo(): NoInfo, EarlierInfo, or the run whose extraction stored it
  hasDebugged,  \* deps.setHasDebugged
  procCtl,      \* currentProcessingAbortController: NoCtl or the run that created it
  extraCtl,     \* currentExtraProcessingAbortController
  aborted,      \* the controllers (named by the run that created them) whose abort() was called
  run,          \* per invocation of processScreenshots: its position and its history
  ctlSent,      \* what the latest cancel / reset handler sent to the renderer
  envKey,       \* process.env.OPENAI_API_KEY (and VITE_OPEN_AI_API_KEY, always set together)
  envModel,     \* process.env.OPENAI_MODEL
  file,         \* config.json: [key, model]
  ipc,          \* the settings handler in progress
  reply,        \* response.choices[0].message.content || "" of a solution request
  solution      \* what parseSolution made of it: <<>> before, <<the object>> after

vars == <<mainWindow, view, queueLen, extraLen, problemInfo, hasDebugged, procCtl,
          extraCtl, aborted, run, ctlSent, envKey, envModel, file, ipc, reply, solution>>

procVars == <<view, queueLen, extraLen, problemInfo, hasDebugged, procCtl, extraCtl,
              aborted, run>>
storeVars == <<envKey, envModel, file, ipc>>
parseVars == <<reply, solution>>

\* ------------------------------------------------------------ state records
\* The coordinator's shared state, as one record the helpers below transform.
Glob ==
  [view |-> view, queueLen |-> queueLen, extraLen |-> extraLen,
   problemInfo |-> problemInfo, hasDebugged |-> hasDebugged,
   procCtl |-> procCtl, extraCtl |-> extraCtl, aborted |-> aborted]

IdleRun ==
  [id |-> "", pc |-> "idle", branch |-> "none", model |-> NoKey, cfg |-> NoKey,
   keyrep |-> "na", hwin |-> FALSE, caller |-> "na", info |-> NoInfo,
   calls |-> <<>>, sent |-> <<>>, result |-> "none"]
InitRun(r) == [IdleRun EXCEPT !.id = r]

\* What one stretch of code of run r works on: g the shared state, r the run's
\* own record, win whether the main window still exists (a window that was
\* closed is destroyed, and getMainWindow() returns null from then on).
St(r) == [g |-> Glob, r |-> run[r], win |-> mainWindow]

Commit(r, S) ==
  /\ view' = S.g.view
  /\ queueLen' = S.g.queueLen
  /\ extraLen' = S.g.extraLen
  /\ problemInfo' = S.g.problemInfo
  /\ hasDebugged' = S.g.hasDebugged
  /\ procCtl' = S.g.procCtl
  /\ extraCtl' = S.g.extraCtl
  /\ aborted' = S.g.aborted
  /\ run' = [run EXCEPT ![r] = S.r]
  /\ UNCHANGED <<mainWindow, ctlSent, storeVars, parseVars>>

\* webContents.send(ev, data)
Send(S, ev, data) == [S EXCEPT !.r.sent = Append(@, [ev |-> ev, data |-> data])]

Finish(S, res) == [S EXCEPT !.r.pc = "done", !.r.result = res]


\* ------------------------------------------------- ProcessingHelper helpers
\* model || "gpt-4o"
RequestModel(m) == IF m = NoKey THEN DefaultModel ELSE m

\* openai.chat.completions.create / axios.post: the request is in flight
\* until its completion action.  The history keeps the latest MaxCalls
\* requests of the invocation.
IssueRequest(S, kind, nextpc) ==
  LET kept == IF Len(S.r.calls) < MaxCalls THEN S.r.calls ELSE Tail(S.r.calls)
  IN [S EXCEPT !.r.calls = Append(kept, [kind |-> kind,
                                         model |-> IF kind = "debug" THEN NoKey
                                                   ELSE RequestModel(S.r.model),
                                         out |-> "pending"]),
               !.r.pc = nextpc]

SetOut(S, out) == [S EXCEPT !.r.calls[Len(S.r.calls)].out = out]

\* The outcomes of a request in flight.  A request whose signal was aborted
\* (before or after it was issued) rejects with the abort error.
Outcomes(r, kind) ==
  IF r \in aborted THEN {"cancelled"}
  ELSE IF kind = "extract" THEN {"ok", "empty", "error"}
  ELSE {"ok", "error", "timeout", "credits", "badkey"}

\* cancelOngoingRequests()
CancelOngoingRequests(S) ==
  LET wasCancelled == S.g.procCtl # NoCtl \/ S.g.extraCtl # NoCtl
      S1 == [S EXCEPT !.g.aborted = @ \cup ({S.g.procCtl, S.g.extraCtl} \ {NoCtl}),
                      !.g.procCtl = NoCtl,
                      !.g.extraCtl = NoCtl,
                      !.g.hasDebugged = FALSE,
                      !.g.problemInfo = NoInfo]
  IN IF wasCancelled /\ S.win THEN Send(S1, "NO_SCREENSHOTS", "") ELSE S1

\* deps.clearQueues()
ClearQueuesMainOnly(S) == [S EXCEPT !.g.queueLen = 0]

ClearQueues(S) == [S EXCEPT !.g.queueLen = 0, !.g.extraLen = 0]

\* The timeout branch shared by generateSolutionsHelper and
\* processExtraScreenshotsHelper: cancel, clear, back to the queue view, tell
\* the renderer.
TimedOut(S, ev, msg) ==
  LET S1 == [ClearQueues(CancelOngoingRequests(S)) EXCEPT !.g.view = "queue"]
  IN IF S.win THEN Send(Send(S1, "reset-view", ""), ev, msg) ELSE S1

\* processScreenshots, the catch of the queue branch: the event goes to the
\* window the invocation started with; sending to a destroyed window throws,
\* and the invocation rejects.
OuterCatch(S, msg) ==
  IF S.win THEN Finish(Send(S, "INITIAL_SOLUTION_ERROR", msg), "returned")
  ELSE Finish(S, "threw")

\* generateSolutionsHelper up to its first await (getLanguage): it reads the
\* stored problem info.
GenEnter(S, caller) ==
  [S EXCEPT !.r.pc = "g_lang", !.r.caller = caller, !.r.info = S.g.problemInfo]

\* processScreenshots after `await this.generateSolutionsHelper(signal, model)`
\* whose result it does not look at: the success event with the problem info.
OuterAfterGen(S) ==
  IF S.win
  THEN Finish(Send(S, "SOLUTION_SUCCESS", S.g.problemInfo), "returned")
  ELSE OuterCatch(S, "Object has been destroyed")

\* processScreenshotsHelper has returned (processScreenshots ignores what):
\* processScreenshots calls generateSolutionsHelper itself.
HelperReturn(S) == GenEnter(S, "outer")

\* processScreenshotsHelper after its own call of generateSolutionsHelper.
\* A throw (the failed result, or a send to a destroyed window) lands in the
\* catch, which returns since retryCount >= MAX_RETRIES.
HelperAfterGen(S, ok) ==
  IF ok
  THEN LET S1 == [S EXCEPT !.g.extraLen = 0]
       IN IF S.win THEN HelperReturn(Send(S1, "SOLUTION_SUCCESS", "solution"))
          ELSE HelperReturn(S1)
  ELSE HelperReturn(S)

\* generateSolutionsHelper returns {success: ok} to whoever called it.
GenReturn(S, ok) ==
  IF S.r.caller = "helper" THEN HelperAfterGen(S, ok) ELSE OuterAfterGen(S)

\* generateSolutionsHelper, the catch.
GenFail(S, out) ==
  LET S1 == CASE out = "timeout" ->
                   TimedOut(S, "INITIAL_SOLUTION_ERROR", "Request timed out")
              [] out = "credits" ->
                   IF S.win THEN Send(S, "OUT_OF_CREDITS", "") ELSE S
              [] out = "badkey" ->
                   IF S.win THEN Send(S, "API_KEY_INVALID", "") ELSE S
              [] OTHER -> S
  IN GenReturn(S1, FALSE)

\* The top of the while loop of processScreenshotsHelper, up to
\* `await this.getLanguage()`.
HelperLoopTop(S) == [S EXCEPT !.r.hwin = S.win, !.r.pc = "h_lang"]

\* processScreenshotsHelper after the extraction response: store it, and if
\* the window read at the loop top was there, announce it and generate the
\* solution; if it was not, the loop body ends without returning and without
\* counting a retry.
AfterExtract(S, out) ==
  IF out \in {"ok", "empty"}
  THEN LET S1 == [S EXCEPT !.g.problemInfo = IF out = "ok" THEN S.r.id ELSE NoInfo]
       IN IF S.r.hwin
          THEN IF S.win
               THEN GenEnter(Send(S1, "PROBLEM_EXTRACTED", S1.g.problemInfo), "helper")
               ELSE HelperReturn(S1)
          ELSE HelperLoopTop(S1)
  ELSE HelperReturn(S)

\* The key check of the queue branch: the service reports whether it has a key.
\* The invocation keeps whether the check stopped it ("missing") or let it
\* pass (no service, or a service with a key).
KeyCheckWithoutReturn(S, rep) ==
  LET S1 == [S EXCEPT !.r.keyrep = IF rep = "missing" THEN "missing" ELSE "passed"]
  IN IF rep = "missing"
     THEN [Send(S1, "API_KEY_MISSING", "") EXCEPT !.r.pc = "reading"]
     ELSE [S1 EXCEPT !.r.pc = "reading"]

KeyCheck(S, rep) ==
  LET S1 == [S EXCEPT !.r.keyrep = IF rep = "missing" THEN "missing" ELSE "passed"]
  IN IF rep = "missing"
     THEN Finish(Send(S1, "API_KEY_MISSING", ""), "returned")
     ELSE [S1 EXCEPT !.r.pc = "reading"]

\* processExtraScreenshotsHelper returned {success: ok}: the debug branch's
\* terminal event, and its finally.
DebugFinally(S) == [S EXCEPT !.g.extraCtl = NoCtl]

DebugAfter(S, ok) ==
  LET S1 == IF ok THEN [S EXCEPT !.g.hasDebugged = TRUE] ELSE S
  IN IF S.win
     THEN DebugFinally(Finish(Send(S1, IF ok THEN "DEBUG_SUCCESS" ELSE "DEBUG_ERROR",
                                   IF ok THEN "data" ELSE "error"), "returned"))
     ELSE DebugFinally(Finish(S1, "threw"))

\* processExtraScreenshotsHelper, the catch.
DebugFail(S, out) ==
  LET S1 == CASE out = "timeout" ->
                   TimedOut(S, "DEBUG_ERROR", "Operation timed out")
              [] out = "credits" ->
                   IF S.win THEN Send(S, "OUT_OF_CREDITS", "") ELSE S
              [] out = "badkey" ->
                   IF S.win THEN Send(S, "API_KEY_INVALID", "") ELSE S
              [] OTHER -> S
  IN DebugAfter(S1, FALSE)

\* ------------------------------------------------------- processScreenshots
\* Invocations are named in the order they are made: "A" is the first.
InOrder(r) == r = "A" \/ run["A"].pc # "idle"

\* if (view === "queue") ... else ...
TakesQueueBranchUnlessSolutions(v) == v # "solutions"

TakesQueueBranch(v) == v = "queue"

\* processScreenshots(model) from its entry to its first await (or return).
\* rep is what the OpenAI service reports about its key: "absent" when
\* deps.getOpenAIService() returns null, else hasKey() as "ok" or "missing".
ProcessScreenshots(r, model, rep) ==
  /\ run[r].pc = "idle"
  /\ InOrder(r)
  /\ LET S0 == [St(r) EXCEPT !.r.model = model, !.r.cfg = envModel]
     IN Commit(r,
          IF ~mainWindow
          THEN Finish([S0 EXCEPT !.r.branch = "nowin"], "returned")
          ELSE IF TakesQueueBranch(view)
          THEN LET S1 == Send([S0 EXCEPT !.r.branch = "queue"], "INITIAL_START", "")
               IN IF queueLen = 0
                  THEN Finish(Send(S1, "NO_SCREENSHOTS", ""), "returned")
                  ELSE KeyCheck([S1 EXCEPT !.g.procCtl = r], rep)
          ELSE LET S1 == [S0 EXCEPT !.r.branch = "debug"]
               IN IF extraLen = 0
                  THEN Finish(Send(S1, "NO_SCREENSHOTS", ""), "returned")
                  ELSE [Send(S1, "DEBUG_START", "") EXCEPT !.g.extraCtl = r,
                                                           !.r.pc = "d_read"])

\* What the two IPC handlers pass as `model`: nothing.
HandlerModelArg == NoKey

\* ipcMain.handle("process-screenshots")
IpcProcessScreenshots ==
  \E r \in Runs, rep \in {"absent", "ok", "missing"} :
    ProcessScreenshots(r, HandlerModelArg, rep)

\* ipcMain.handle("trigger-process-screenshots")
IpcTriggerProcessScreenshots ==
  \E r \in Runs, rep \in {"absent", "ok", "missing"} :
    ProcessScreenshots(r, HandlerModelArg, rep)

\* The screenshot files have been read (or one read failed).
ReadDone(r) ==
  /\ run[r].pc = "reading"
  /\ \E ok \in BOOLEAN :
       Commit(r, IF ok THEN HelperLoopTop(St(r))
                 ELSE OuterCatch(St(r), "read error"))

\* processScreenshotsHelper after getLanguage: the key of the environment,
\* then the extraction request.
HelperAfterLanguage(r) ==
  /\ run[r].pc = "h_lang"
  /\ IF envKey = NoKey
     THEN Commit(r, HelperReturn(St(r)))
     ELSE Commit(r, IssueRequest(St(r), "extract", "h_extract"))

\* The extraction request completes.
ExtractDone(r) ==
  /\ run[r].pc = "h_extract"
  /\ \E out \in Outcomes(r, "extract") :
       Commit(r, AfterExtract(SetOut(St(r), out), out))

\* generateSolutionsHelper after getLanguage: the key, the problem info read
\* on entry, then the solution request.
GenAfterLanguage(r) ==
  /\ run[r].pc = "g_lang"
  /\ IF envKey = NoKey \/ run[r].info = NoInfo
     THEN Commit(r, GenFail(St(r), "error"))
     ELSE Commit(r, IssueRequest(St(r), "solve", "g_solve"))

\* The solution request completes.
SolveDone(r) ==
  /\ run[r].pc = "g_solve"
  /\ \E out \in Outcomes(r, "solve") :
       Commit(r, IF out = "ok" THEN GenReturn(SetOut(St(r), out), TRUE)
                 ELSE GenFail(SetOut(St(r), out), out))

\* The debug branch: previews and files have been read (or that failed).
DebugReadDone(r) ==
  /\ run[r].pc = "d_read"
  /\ \E ok \in BOOLEAN :
       Commit(r, IF ok
                 THEN [St(r) EXCEPT !.r.info = problemInfo, !.r.pc = "d_lang"]
                 ELSE DebugAfter(St(r), FALSE))

\* processExtraScreenshotsHelper after getLanguage.
DebugAfterLanguage(r) ==
  /\ run[r].pc = "d_lang"
  /\ IF run[r].info = NoInfo
     THEN Commit(r, DebugFail(St(r), "error"))
     ELSE Commit(r, IssueRequest(St(r), "debug", "d_req"))

\* The debug request completes.
DebugDone(r) ==
  /\ run[r].pc = "d_req"
  /\ \E out \in Outcomes(r, "debug") :
       Commit(r, IF out = "ok" THEN DebugAfter(SetOut(St(r), out), TRUE)
                 ELSE DebugFail(SetOut(St(r), out), out))

\* ------------------------------------------------------ control handlers
\* The state a handler outside any invocation works on: what it sends is kept
\* in ctlSent.
CtlSt == [g |-> Glob, r |-> [sent |-> <<>>], win |-> mainWindow]

CtlCommit(S) ==
  /\ view' = S.g.view
  /\ queueLen' = S.g.queueLen
  /\ extraLen' = S.g.extraLen
  /\ problemInfo' = S.g.problemInfo
  /\ hasDebugged' = S.g.hasDebugged
  /\ procCtl' = S.g.procCtl
  /\ extraCtl' = S.g.extraCtl
  /\ aborted' = S.g.aborted
  /\ ctlSent' = S.r.sent
  /\ UNCHANGED <<mainWindow, run, storeVars, parseVars>>

\* cancelProcessing()
CancelProcessing(S) ==
  [S EXCEPT !.g.aborted = @ \cup ({S.g.procCtl, S.g.extraCtl} \ {NoCtl}),
            !.g.procCtl = NoCtl,
            !.g.extraCtl = NoCtl]

\* ipcMain.handle("cancel-processing")
IpcCancelProcessing == CtlCommit(CancelProcessing(CtlSt))

\* ipcMain.handle("trigger-reset")
IpcTriggerReset ==
  LET S1 == [ClearQueues(CancelOngoingRequests(CtlSt)) EXCEPT !.g.view = "queue"]
  IN CtlCommit(IF mainWindow THEN Send(Send(S1, "reset-view", ""), "reset", "")
               ELSE S1)

\* ipcMain.handle("reset-queues")
IpcResetQueues == CtlCommit(ClearQueues(CtlSt))

\* ipcMain.handle("take-screenshot") / ("trigger-screenshot"): the screenshot
\* goes to the queue of the current view.
IpcTakeScreenshot ==
  /\ IF view = "queue"
     THEN queueLen < MaxQueue /\ queueLen' = queueLen + 1 /\ UNCHANGED extraLen
     ELSE extraLen < MaxQueue /\ extraLen' = extraLen + 1 /\ UNCHANGED queueLen
  /\ UNCHANGED <<mainWindow, view, problemInfo, hasDebugged, procCtl, extraCtl,
                 aborted, run, ctlSent, storeVars, parseVars>>

\* mainWindow.on("closed")
WindowClosed ==
  /\ mainWindow
  /\ mainWindow' = FALSE
  /\ UNCHANGED <<procVars, ctlSent, storeVars, parseVars>>

\* ------------------------------------------------------- settings handlers
\* A JavaScript value handed to a handler is [t |-> its typeof, s |-> its
\* characters (of a string, or the digits of a number)].
JStr(chars) == [t |-> "string", s |-> chars]
JNum(chars) == [t |-> "number", s |-> chars]
JUndef == [t |-> "undefined", s |-> <<>>]

IsSpace(c) == c \in {" ", "\t", "\n"}

RECURSIVE TrimStart(_)
TrimStart(s) ==
  IF s # <<>> /\ IsSpace(Head(s)) THEN TrimStart(Tail(s)) ELSE s

RECURSIVE TrimEnd(_)
TrimEnd(s) ==
  IF s # <<>> /\ IsSpace(s[Len(s)]) THEN TrimEnd(SubSeq(s, 1, Len(s) - 1)) ELSE s

\* String.prototype.trim
Trim(s) == TrimEnd(TrimStart(s))

\* !v is false
Truthy(v) ==
  \/ v.t = "string" /\ v.s # <<>>
  \/ v.t = "number" /\ v.s # <<"0">>

\* !apiKey || typeof apiKey !== 'string' || !apiKey.trim()
InvalidApiKeyUntrimmed(v) == ~Truthy(v) \/ v.t # "string"

InvalidApiKey(v) == ~Truthy(v) \/ v.t # "string" \/ Trim(v.s) = <<>>

\* !model || typeof model !== 'string'
InvalidModel(v) == ~Truthy(v) \/ v.t # "string"

\* The arguments the renderer (or anything else on the IPC channel) may pass.
KeyInputs ==
  {JStr(<<>>), JStr(<<" ">>), JStr(<<" ", "k", " ">>), JStr(<<"j">>),
   JNum(<<"5">>), JUndef}
ModelInputs == {JStr(<<"o", "1">>), JStr(<<>>), JNum(<<"5">>), JUndef}

NoResult == [success |-> FALSE, error |-> "", apiKey |-> NoKey, model |-> NoKey]
Ok == [NoResult EXCEPT !.success = TRUE]
Failure(msg) == [NoResult EXCEPT !.error = msg]

IdleIpc ==
  [pc |-> "idle", kind |-> "none", given |-> TRUE, key |-> JUndef, model |-> JUndef,
   file0 |-> [key |-> NoKey, model |-> NoKey], envKey0 |-> NoKey, envModel0 |-> NoKey,
   wrote |-> <<>>, notified |-> FALSE, result |-> NoResult]

\* A handler starts: nothing else of the settings is in progress.  It keeps
\* the settings as they were for comparison.
Begin(kind, k, m) ==
  [IdleIpc EXCEPT !.kind = kind, !.key = k, !.model = m,
                  !.file0 = file, !.envKey0 = envKey, !.envModel0 = envModel]

Return(h, res) == [h EXCEPT !.pc = "returned", !.result = res]

\* store.set(key, value): the value read back from the file (merged with the
\* new one) is written; any error of the file system is caught.
StoreSet(f, field, value, ok) == IF ok THEN [f EXCEPT ![field] = value] ELSE f

\* ipcMain.handle("set-openai-api-key"), to the await of store.set
IpcSetApiKey ==
  /\ ipc.pc \in {"idle", "returned"}
  /\ \E k \in KeyInputs :
       LET h == Begin("set-openai-api-key", k, JUndef)
       IN ipc' = IF InvalidApiKey(k) THEN Return(h, Failure("Invalid API key"))
                 ELSE [h EXCEPT !.pc = "set_key"]
  /\ UNCHANGED <<mainWindow, procVars, ctlSent, parseVars, envKey, envModel, file>>

\* ipcMain.handle("set-model-config"), to the await of the first store.set.
\* given is FALSE when the handler is invoked without a config object: the
\* destructuring throws, and the catch answers.
IpcSetModelConfig ==
  /\ ipc.pc \in {"idle", "returned"}
  /\ \E given \in BOOLEAN, k \in KeyInputs, m \in ModelInputs :
       LET h == Begin("set-model-config", k, m)
       IN ipc' = IF ~given
                 THEN Return([Begin("set-model-config", JUndef, JUndef)
                                EXCEPT !.given = FALSE],
                             Failure("Failed to save configuration"))
                 ELSE IF InvalidApiKey(k) THEN Return(h, Failure("Invalid API key"))
                 ELSE IF InvalidModel(m) THEN Return(h, Failure("Invalid model selection"))
                 ELSE [h EXCEPT !.pc = "set_key"]
  /\ UNCHANGED <<mainWindow, procVars, ctlSent, parseVars, envKey, envModel, file>>

\* The handler after its last store.set: the environment, the event, the answer.
AfterStore(h) ==
  /\ envKey' = Trim(h.key.s)
  /\ envModel' = IF h.kind = "set-model-config" THEN h.model.s ELSE envModel
  /\ ipc' = Return([h EXCEPT !.notified = mainWindow], Ok)

\* store.set('openai-api-key', apiKey.trim()) completes (written or not)
StoreSetKeyDone ==
  /\ ipc.pc = "set_key"
  /\ \E ok \in BOOLEAN :
       /\ file' = StoreSet(file, "key", Trim(ipc.key.s), ok)
       /\ LET h == [ipc EXCEPT !.wrote = Append(@, ok)]
          IN IF ipc.kind = "set-openai-api-key"
             THEN AfterStore(h)
             ELSE ipc' = [h EXCEPT !.pc = "set_model"] /\ UNCHANGED <<envKey, envModel>>
  /\ UNCHANGED <<mainWindow, procVars, ctlSent, parseVars>>

\* store.set('openai-model', model) completes (written or not)
StoreSetModelDone ==
  /\ ipc.pc = "set_model"
  /\ \E ok \in BOOLEAN :
       /\ file' = StoreSet(file, "model", ipc.model.s, ok)
       /\ AfterStore([ipc EXCEPT !.wrote = Append(@, ok)])
  /\ UNCHANGED <<mainWindow, procVars, ctlSent, parseVars>>

\* store.get(key): the value of the file, undefined on any error.
StoreGet(f, field, ok) == IF ok THEN f[field] ELSE NoKey

\* ipcMain.handle("get-openai-api-key"), to the await of the first store.get
IpcGetApiKey ==
  /\ ipc.pc \in {"idle", "returned"}
  /\ ipc' = [Begin("get-openai-api-key", JUndef, JUndef) EXCEPT !.pc = "get_key"]
  /\ UNCHANGED <<mainWindow, procVars, ctlSent, parseVars, envKey, envModel, file>>

\* store.get('openai-api-key') completes
StoreGetKeyDone ==
  /\ ipc.pc = "get_key"
  /\ \E ok \in BOOLEAN :
       ipc' = [ipc EXCEPT !.pc = "get_model", !.result.apiKey = StoreGet(file, "key", ok)]
  /\ UNCHANGED <<mainWindow, procVars, ctlSent, parseVars, envKey, envModel, file>>

\* store.get('openai-model') completes, and the handler answers
StoreGetModelDone ==
  /\ ipc.pc = "get_model"
  /\ \E ok \in BOOLEAN :
       LET got == StoreGet(file, "model", ok)
           m == IF got = NoKey THEN DefaultModel ELSE got
       IN ipc' = IF ipc.result.apiKey = NoKey
                 THEN Return(ipc, Failure("API key not found"))
                 ELSE Return(ipc, [Ok EXCEPT !.apiKey = ipc.result.apiKey, !.model = m])
  /\ UNCHANGED <<mainWindow, procVars, ctlSent, parseVars, envKey, envModel, file>>

\* ------------------------------------------------------------ parseSolution
\* The backquote character (a string cannot hold it), and the fence.
Backquote == "BACKQUOTE"
Fence == <<Backquote, Backquote, Backquote>>

\* What `.` of a regular expression does not match.
IsLineTerminator(c) == c \in {"\n", "\r"}

\* t holds w at position i
StartsWith(t, i, w) == i + Len(w) - 1 <= Len(t) /\ SubSeq(t, i, i + Len(w) - 1) = w

\* ([\s\S]*?)``` tried at position i: the lazy body ends at the first fence at
\* or after i (0: there is none).
RECURSIVE BodyEndGreedy(_, _)
BodyEndGreedy(t, i) ==
  IF i > Len(t) THEN 0
  ELSE LET later == BodyEndGreedy(t, i + 1)
       IN IF later # 0 THEN later ELSE IF StartsWith(t, i, Fence) THEN i ELSE 0

RECURSIVE BodyEnd(_, _)
BodyEnd(t, i) ==
  IF i > Len(t) THEN 0
  ELSE IF StartsWith(t, i, Fence) THEN i
  ELSE BodyEnd(t, i + 1)

\* (?:.*?)\n([\s\S]*?)``` tried at position i, right after an opening fence:
\* the lazy `.*?` takes one more character at a time, and none that is a line
\* terminator.  <<n, q>>: the newline is at n and the closing fence at q;
\* <<>>: no match.
RECURSIVE InfoThenBody(_, _)
InfoThenBody(t, i) ==
  IF i > Len(t) THEN <<>>
  ELSE LET q == IF t[i] = "\n" THEN BodyEnd(t, i + 1) ELSE 0
       IN IF q # 0 THEN <<i, q>>
          ELSE IF IsLineTerminator(t[i]) THEN <<>>
          ELSE InfoThenBody(t, i + 1)

\* [...solutionText.matchAll(codeRegex)][0]: the match that starts leftmost,
\* looked for from position p on.
RECURSIVE FirstMatch(_, _)
FirstMatch(t, p) ==
  IF p > Len(t) THEN <<>>
  ELSE IF StartsWith(t, p, Fence) /\ InfoThenBody(t, p + 3) # <<>>
  THEN InfoThenBody(t, p + 3)
  ELSE FirstMatch(t, p + 1)

\* solutionText.split("```")[0]
RECURSIVE SplitFirst(_)
SplitFirst(t) ==
  IF t = <<>> \/ StartsWith(t, 1, Fence) THEN <<>>
  ELSE <<Head(t)>> \o SplitFirst(Tail(t))

AnalysisHeader ==
  <<"S", "o", "l", "u", "t", "i", "o", "n", " ", "a", "n", "a", "l", "y",
    "s", "i", "s", ":", "\n">>

\* The `i` flag, for the letters the patterns name.
Lower(c) ==
  CASE c = "T" -> "t" [] c = "I" -> "i" [] c = "M" -> "m" [] c = "E" -> "e"
    [] c = "S" -> "s" [] c = "P" -> "p" [] c = "A" -> "a" [] c = "C" -> "c"
    [] c = "O" -> "o" [] c = "L" -> "l" [] c = "X" -> "x" [] c = "Y" -> "y"
    [] c = "Theta" -> "theta" [] c = "Omega" -> "omega"
    [] OTHER -> c

StartsWithIgnoringCase(t, i, w) ==
  /\ i + Len(w) - 1 <= Len(t)
  /\ \A k \in 1..Len(w) : Lower(t[i + k - 1]) = Lower(w[k])

TimeWord == <<"t", "i", "m", "e">>
SpaceWord == <<"s", "p", "a", "c", "e">>
ComplexityWord == <<"c", "o", "m", "p", "l", "e", "x", "i", "t", "y">>
TimeNotSpecified ==
  <<"T", "i", "m", "e", " ", "c", "o", "m", "p", "l", "e", "x", "i", "t",
    "y", " ", "n", "o", "t", " ", "s", "p", "e", "c", "i", "f", "i", "e",
    "d">>
SpaceNotSpecified ==
  <<"S", "p", "a", "c", "e", " ", "c", "o", "m", "p", "l", "e", "x", "i",
    "t", "y", " ", "n", "o", "t", " ", "s", "p", "e", "c", "i", "f", "i",
    "e", "d">>

\* \s*
RECURSIVE SkipSpace(_, _)
SkipSpace(t, i) == IF i <= Len(t) /\ IsSpace(t[i]) THEN SkipSpace(t, i + 1) ELSE i

\* the first ")" at or after i (0: none)
RECURSIVE CloseParen(_, _)
CloseParen(t, i) ==
  IF i > Len(t) THEN 0 ELSE IF t[i] = ")" THEN i ELSE CloseParen(t, i + 1)

\* .*?[O Theta Omega]\([^)]+\) tried at position i: where the match ends (0: no
\* match).
RECURSIVE BigOEnd(_, _)
BigOEnd(t, i) ==
  IF i > Len(t) THEN 0
  ELSE LET e == IF /\ Lower(t[i]) \in {"o", "theta", "omega"}
                   /\ i + 2 <= Len(t)
                   /\ t[i + 1] = "("
                   /\ t[i + 2] # ")"
                THEN CloseParen(t, i + 3) ELSE 0
       IN IF e # 0 THEN e
          ELSE IF IsLineTerminator(t[i]) THEN 0
          ELSE BigOEnd(t, i + 1)

\* text.match(regex): the match that starts leftmost, from position s on, as
\* <<start, end>>; <<>> is null.
RECURSIVE ComplexityMatch(_, _, _)
ComplexityMatch(t, word, s) ==
  IF s > Len(t) THEN <<>>
  ELSE LET b == SkipSpace(t, s + Len(word))
           e == IF /\ StartsWithIgnoringCase(t, s, word)
                   /\ StartsWithIgnoringCase(t, b, ComplexityWord)
                THEN BigOEnd(t, b + Len(ComplexityWord)) ELSE 0
       IN IF e # 0 THEN <<s, e>> ELSE ComplexityMatch(t, word, s + 1)

\* extractComplexity(text, type)
ExtractComplexity(t, type) ==
  LET m == ComplexityMatch(t, IF type = "time" THEN TimeWord ELSE SpaceWord, 1)
  IN IF m # <<>> THEN SubSeq(t, m[1], m[2])
     ELSE IF type = "time" THEN TimeNotSpecified ELSE SpaceNotSpecified

\* parseSolution(solutionText)
ParseSolution(t) ==
  LET m == FirstMatch(t, 1)
  IN [code |-> IF m # <<>> THEN SubSeq(t, m[1] + 1, m[2] - 1) ELSE t,
      thoughts |-> <<AnalysisHeader \o SplitFirst(t)>>,
      time_complexity |-> ExtractComplexity(t, "time"),
      space_complexity |-> ExtractComplexity(t, "space")]

\* The replies: up to MaxTokens pieces, each a fence, a single backquote, a
\* newline or an ordinary character, and after them nothing or a sentence on
\* the complexity.
Pieces == {Fence, <<Backquote>>, <<"\n">>, <<"c">>}
RECURSIVE Flatten(_)
Flatten(ps) == IF ps = <<>> THEN <<>> ELSE Head(ps) \o Flatten(Tail(ps))
TimeSentence ==
  <<"\n", "T", "i", "m", "e", " ", "C", "o", "m", "p", "l", "e", "x", "i",
    "t", "y", ":", " ", "O", "(", "n", ")">>
SpaceSentence ==
  <<" ", "s", "p", "a", "c", "e", " ", "c", "o", "m", "p", "l", "e", "x",
    "i", "t", "y", " ", "i", "s", " ", "o", "(", "1", ")">>
Replies ==
  {Flatten(ps) \o tail :
     ps \in UNION {[1..n -> Pieces] : n \in 0..MaxTokens},
     tail \in {<<>>, TimeSentence, SpaceSentence}}

\* generateSolutionsHelper, from the response to its successful return: the
\* reply is parsed into the solution it hands back.
ParseReply ==
  /\ solution = <<>>
  /\ solution' = <<ParseSolution(reply)>>
  /\ UNCHANGED <<mainWindow, procVars, ctlSent, storeVars, reply>>

\* ------------------------------------------------------------ specification
Init ==
  /\ mainWindow = TRUE
  /\ view \in Views
  /\ queueLen = 0
  /\ extraLen = 0
  /\ problemInfo = IF view = "queue" THEN NoInfo ELSE EarlierInfo
  /\ hasDebugged = FALSE
  /\ procCtl = NoCtl
  /\ extraCtl = NoCtl
  /\ aborted = {}
  /\ run = [r \in Runs |-> InitRun(r)]
  /\ ctlSent = <<>>
  /\ envKey \in {NoKey, <<"k">>}
  /\ envModel = NoKey
  /\ file = [key |-> NoKey, model |-> NoKey]
  /\ ipc = IdleIpc
  /\ reply = <<>>
  /\ solution = <<>>

RunStep ==
  \E r \in Runs :
    \/ ReadDone(r)
    \/ HelperAfterLanguage(r)
    \/ ExtractDone(r)
    \/ GenAfterLanguage(r)
    \/ SolveDone(r)
    \/ DebugReadDone(r)
    \/ DebugAfterLanguage(r)
    \/ DebugDone(r)

Next ==
  \/ IpcProcessScreenshots
  \/ IpcTriggerProcessScreenshots
  \/ RunStep
  \/ IpcCancelProcessing
  \/ IpcTriggerReset
  \/ IpcResetQueues
  \/ IpcTakeScreenshot
  \/ WindowClosed

Spec == Init /\ [][Next]_vars

\* The settings handlers alone.
NextStore ==
  \/ IpcSetApiKey
  \/ IpcSetModelConfig
  \/ StoreSetKeyDone
  \/ StoreSetModelDone
  \/ IpcGetApiKey
  \/ StoreGetKeyDone
  \/ StoreGetModelDone
  \/ WindowClosed

InitStore == Init /\ view = "queue" /\ envKey = NoKey

SpecStore == InitStore /\ [][NextStore]_vars

\* The model configuration, and one invocation of processScreenshots after or
\* amid it.
NextConfig ==
  \/ IpcSetModelConfig
  \/ StoreSetKeyDone
  \/ StoreSetModelDone
  \/ \E rep \in {"absent", "ok", "missing"} : ProcessScreenshots("A", HandlerModelArg, rep)
  \/ ReadDone("A")
  \/ HelperAfterLanguage("A")
  \/ ExtractDone("A")
  \/ GenAfterLanguage("A")
  \/ SolveDone("A")
  \/ IpcTakeScreenshot

SpecConfig == InitStore /\ [][NextConfig]_vars

\* The invocations with the handlers that change what they read, where every
\* await completes: a file read, getLanguage and a remote request in flight
\* each end (the request with one of its outcomes), so the continuation of an
\* invocation that can run does run.
NextLive ==
  \/ IpcProcessScreenshots
  \/ RunStep
  \/ IpcTriggerReset
  \/ IpcTakeScreenshot
  \/ WindowClosed

AwaitsComplete ==
  \A r \in Runs :
    /\ WF_vars(ReadDone(r))
    /\ WF_vars(HelperAfterLanguage(r))
    /\ WF_vars(ExtractDone(r))
    /\ WF_vars(GenAfterLanguage(r))
    /\ WF_vars(SolveDone(r))
    /\ WF_vars(DebugReadDone(r))
    /\ WF_vars(DebugAfterLanguage(r))
    /\ WF_vars(DebugDone(r))

InitLive == Init /\ envKey = <<"k">>

SpecLive == InitLive /\ [][NextLive]_vars /\ AwaitsComplete

\* parseSolution alone, on every reply.
InitParse ==
  /\ mainWindow = TRUE
  /\ view = "queue"
  /\ queueLen = 0
  /\ extraLen = 0
  /\ problemInfo = NoInfo
  /\ hasDebugged = FALSE
  /\ procCtl = NoCtl
  /\ extraCtl = NoCtl
  /\ aborted = {}
  /\ run = [r \in Runs |-> InitRun(r)]
  /\ ctlSent = <<>>
  /\ envKey = <<"k">>
  /\ envModel = NoKey
  /\ file = [key |-> NoKey, model |-> NoKey]
  /\ ipc = IdleIpc
  /\ reply \in Replies
  /\ solution = <<>>

NextParse == ParseReply

SpecParse == InitParse /\ [][NextParse]_vars


\* ------------------------------------------------------------------ claims
\* Reading the histories the invocations keep.
HasEvent(r, ev) == \E i \in 1..Len(run[r].sent) : run[r].sent[i].ev = ev
CountKind(r, k) == Cardinality({i \in 1..Len(run[r].calls) : run[r].calls[i].kind = k})
InFlight(r) == run[r].pc \in {"h_extract", "g_solve", "d_req"}
Kinds(r) == [i \in 1..Len(run[r].calls) |-> run[r].calls[i].kind]
AllOk(r) == \A i \in 1..Len(run[r].calls) : run[r].calls[i].out = "ok"
CallOk(r, k) ==
  \E i \in 1..Len(run[r].calls) : run[r].calls[i].kind = k /\ run[r].calls[i].out = "ok"

\* C1: an invocation in the queue view whose remote calls all succeed issues
\* exactly two of them: the extraction, then one solution request.
C1_TwoRemoteCalls ==
  \A r \in Runs :
    (run[r].pc = "done" /\ run[r].branch = "queue" /\ run[r].calls # <<>> /\ AllOk(r))
      => Kinds(r) = <<"extract", "solve">>

\* C2: whatever the outcomes and whether or not the main window is still
\* there, one invocation issues at most one extraction request.
C2_OneExtractionRequest == \A r \in Runs : CountKind(r, "extract") <= 1

\* C3: when cancel-processing or trigger-reset (cancelOngoingRequests) has
\* run, the signal of every request still in flight has been aborted.
AllInFlightAborted == \A r \in Runs : InFlight(r) => r \in aborted
C3_CancelAbortsInFlight ==
  [][(IpcCancelProcessing \/ IpcTriggerReset) => AllInFlightAborted']_vars

\* C4: no two invocations have remote requests in flight at the same time.
C4_OneRunAtATime == \A r1, r2 \in Runs : (InFlight(r1) /\ InFlight(r2)) => r1 = r2

\* C5: the step that completes a queue-view invocation which produced a
\* solution leaves the view flag at 'solutions'.
C5_ViewBecomesSolutions ==
  [][\A r \in Runs :
       (run[r].pc # "done" /\ run'[r].pc = "done" /\ run'[r].branch = "queue"
        /\ CallOk(r, "solve")')
         => view' = "solutions"]_vars

\* C6: when set-openai-api-key has answered {success: true} for key k, the
\* settings file holds trim(k).
C6_SuccessMeansPersisted ==
  (ipc.pc = "returned" /\ ipc.kind = "set-openai-api-key" /\ ipc.result.success)
    => file.key = Trim(ipc.key.s)

\* C7: set-openai-api-key and set-model-config, given an apiKey that is empty,
\* whitespace-only or no string (or, set-model-config, a model that is missing
\* or no string), answer with the validation error and change nothing: not
\* the settings file, not the environment, and no api-key-updated is sent.
BadKeyArg(v) == v.t # "string" \/ \A i \in 1..Len(v.s) : IsSpace(v.s[i])
BadModelArg(v) == v.t # "string" \/ v.s = <<>>
C8_RequestsNameConfiguredModel ==
  \A r \in Runs :
    run[r].cfg # NoKey
      => \A i \in 1..Len(run[r].calls) : run[r].calls[i].model = run[r].cfg

\* C9: an invocation in the queue view, with screenshots queued, to which the
\* service reports no key, sends API_KEY_MISSING, issues no remote request and
\* sends neither SOLUTION_SUCCESS nor INITIAL_SOLUTION_ERROR.
C9_MissingKeyStopsRun ==
  \A r \in Runs :
    run[r].keyrep = "missing"
      => /\ run[r].branch = "queue"
         /\ HasEvent(r, "API_KEY_MISSING")
         /\ run[r].calls = <<>>
         /\ ~HasEvent(r, "SOLUTION_SUCCESS")
         /\ ~HasEvent(r, "INITIAL_SOLUTION_ERROR")

\* C9 happens: an invocation was told the key is missing, and has returned.
C9_Witness ==
  \E r \in Runs :
    /\ run[r].keyrep = "missing"
    /\ run[r].pc = "done"
    /\ run[r].sent = <<[ev |-> "INITIAL_START", data |-> ""],
                       [ev |-> "API_KEY_MISSING", data |-> ""]>>

\* C10: SOLUTION_SUCCESS is sent only by an invocation whose extraction
\* request and whose solution request both succeeded.
C10_SuccessOnlyAfterBothCalls ==
  \A r \in Runs :
    (run[r].branch = "queue" /\ HasEvent(r, "SOLUTION_SUCCESS"))
      => (CallOk(r, "extract") /\ CallOk(r, "solve"))

\* C11: a queue-view invocation that has returned, and whose extraction
\* request or solution request failed (error, cancellation, timeout, credits,
\* key refused), has sent INITIAL_SOLUTION_ERROR to the renderer.
FailedCall(r) ==
  \E i \in 1..Len(run[r].calls) :
    /\ run[r].calls[i].kind \in {"extract", "solve"}
    /\ run[r].calls[i].out \in {"error", "cancelled", "timeout", "credits", "badkey"}
C11_FailureSendsInitialSolutionError ==
  \A r \in Runs :
    (run[r].pc = "done" /\ run[r].branch = "queue" /\ run[r].result = "returned"
     /\ FailedCall(r))
      => HasEvent(r, "INITIAL_SOLUTION_ERROR")

\* C12: the state right after trigger-reset has answered: the view is 'queue',
\* both queues are empty, problemInfo is null, hasDebugged is false, both abort
\* controllers are null and, if the window exists, 'reset-view' was sent
\* before 'reset'.
SentBefore(s, ev1, ev2) ==
  \E i, j \in 1..Len(s) : i < j /\ s[i].ev = ev1 /\ s[j].ev = ev2
C12_ResetPostState ==
  [][IpcTriggerReset =>
       (/\ view' = "queue"
        /\ queueLen' = 0
        /\ extraLen' = 0
        /\ problemInfo' = NoInfo
        /\ hasDebugged' = FALSE
        /\ procCtl' = NoCtl
        /\ extraCtl' = NoCtl
        /\ mainWindow' => SentBefore(ctlSent', "reset-view", "reset"))]_vars

\* C12 happens: trigger-reset ran while a debug request was in flight and
\* problem info was stored; it cancelled the request, cleared the problem info
\* and sent its events.
C12_Witness ==
  /\ ctlSent = <<[ev |-> "NO_SCREENSHOTS", data |-> ""],
                 [ev |-> "reset-view", data |-> ""],
                 [ev |-> "reset", data |-> ""]>>
  /\ \E r \in Runs : run[r].pc = "d_req" /\ r \in aborted
  /\ view = "queue"
  /\ problemInfo = NoInfo

\* C13: parseSolution returns as code the body of the first fenced block when
\* the reply holds a complete fenced block (an opening fence, the rest of its
\* line, a newline, the body, a closing fence), and the whole reply when it
\* holds none; thoughts is the analysis header followed by the reply's text
\* before its first fence.
FencesOf(t) == {p \in 1..Len(t) : p + 2 <= Len(t) /\ <<t[p], t[p + 1], t[p + 2]>> = Fence}
\* <<p, n, q>>: a fence opens at p, its line ends with the newline at n, and q
\* is the next fence after that newline.
FencedBlocks(t) ==
  {b \in FencesOf(t) \X (1..Len(t)) \X FencesOf(t) :
     /\ b[1] + 3 <= b[2]
     /\ t[b[2]] = "\n"
     /\ \A k \in (b[1] + 3)..(b[2] - 1) : t[k] # "\n"
     /\ b[2] < b[3]
     /\ \A q \in FencesOf(t) : q > b[2] => b[3] <= q}
FirstBlock(t) ==
  CHOOSE b \in FencedBlocks(t) : \A o \in FencedBlocks(t) : b[1] <= o[1]
BeforeFirstFence(t) ==
  IF FencesOf(t) = {} THEN t
  ELSE SubSeq(t, 1, (CHOOSE p \in FencesOf(t) : \A o \in FencesOf(t) : p <= o) - 1)
C14_EveryInvocationReturns ==
  \A r \in Runs : (run[r].pc # "idle") ~> (run[r].pc = "done")

\* C15: every SOLUTION_SUCCESS sent to the renderer carries the parsed
\* solution of the solution request, never the problem info and never null.
C15_SuccessCarriesSolution ==
  \A r \in Runs :
    \A i \in 1..Len(run[r].sent) :
      run[r].sent[i].ev = "SOLUTION_SUCCESS" => run[r].sent[i].data = "solution"

\* C16: a debug-branch invocation that sent DEBUG_START and has returned has
\* sent exactly one terminal event, DEBUG_SUCCESS or DEBUG_ERROR.
TerminalDebugEvents(r) ==
  Cardinality({i \in 1..Len(run[r].sent) :
                 run[r].sent[i].ev \in {"DEBUG_SUCCESS", "DEBUG_ERROR"}})
C16_OneTerminalDebugEvent ==
  \A r \in Runs :
    (run[r].branch = "debug" /\ HasEvent(r, "DEBUG_START") /\ run[r].result = "returned")
      => TerminalDebugEvents(r) = 1

\* C17: an invocation takes the initial-processing branch exactly when the
\* view is 'queue' (its requests are an extraction and then solution requests),
\* the debug branch for 'solutions' and for 'debug' (at most one request, the
\* debug request), and with no main window it returns having done nothing.
C17_BranchFollowsView ==
  [][\A r \in Runs :
       /\ (run[r].pc = "idle" /\ run'[r].pc # "idle")
            => run'[r].branch = IF ~mainWindow THEN "nowin"
                                ELSE IF view = "queue" THEN "queue"
                                ELSE "debug"
       /\ run'[r].branch = "queue"
            => \A i \in 1..Len(run'[r].calls) :
                 run'[r].calls[i].kind \in {"extract", "solve"}
       /\ run'[r].branch = "debug"
            => /\ Len(run'[r].calls) <= 1
               /\ \A i \in 1..Len(run'[r].calls) : run'[r].calls[i].kind = "debug"
       /\ run'[r].branch = "nowin"
            => /\ run'[r].calls = <<>>
               /\ run'[r].sent = <<>>
               /\ run'[r].result = "returned"
               /\ run[r].pc = "idle" => UNCHANGED <<view, queueLen, extraLen, problemInfo,
                                                     hasDebugged, procCtl, extraCtl, aborted>>]_vars

\* C17 happens: in the 'debug' view an invocation took the debug branch and
\* has its debug request in flight.
C17_Witness ==
  \E r \in Runs :
    /\ view = "debug"
    /\ run[r].branch = "debug"
    /\ run[r].pc = "d_req"
    /\ Kinds(r) = <<"debug">>

====
